---- MODULE Spec2Model ----
(***************************************************************************)
(* Loan EMI and prepayment simulator (src/loan_simulator.py): the Loan     *)
(* class (calculate_emi, simulate_with_prepayment,                         *)
(* generate_prepayment_schedule, compare_with_prepayment) and the          *)
(* "Simulate Loan" handler that runs the vanilla schedule, the prepaid     *)
(* schedule and the comparison.                                            *)
(*                                                                         *)
(* Numbers.  The program computes in binary floating point.  Here every    *)
(* amount of money is an integer count of 1/10000 of a currency unit       *)
(* (Unit), powers (1+r)^n are integers scaled by PowScale = 10^8, and      *)
(* every arithmetic operation rounds its exact result to the nearest       *)
(* representable value, ties to even, as the floating point operations     *)
(* do.  round(x, 2) is Round2: the nearest whole cent, ties to even.       *)
(***************************************************************************)
EXTENDS Integers, Sequences, FiniteSets

----------------------------------------------------------------------------
(* Fixed-point arithmetic standing for the float operations *)

\* units of money per currency unit, and per cent
Unit == 100 * 100
Cent == 10 * 10
\* scale of the fixed-point powers (1 + r)^n
PowScale == 10000 * 10000

Min(a, b) == IF a <= b THEN a ELSE b

\* x / d rounded to the nearest integer, ties to even (d > 0)
RoundDiv(x, d) ==
  LET q == x \div d
      r == x % d
  IN  IF 2 * r < d THEN q
      ELSE IF 2 * r > d THEN q + 1
      ELSE IF q % 2 = 0 THEN q ELSE q + 1

\* <<quotient, remainder>> of x * y by z, for x, y >= 0 and z > 0, computed
\* by halving y so that no intermediate value leaves the integer range.
\* One halving step: from h = <<q, r>> of x * (y \div 2) to that of x * y
MulDivDouble(h, add, z) ==
  <<2 * h[1] + (add \div z) + ((2 * h[2] + (add % z)) \div z),
    (2 * h[2] + (add % z)) % z>>

RECURSIVE MulDivMod(_, _, _)
MulDivMod(x, y, z) ==
  IF y = 0 THEN <<0, 0>>
  ELSE MulDivDouble(MulDivMod(x, y \div 2, z), IF y % 2 = 1 THEN x ELSE 0, z)

\* a quotient t = <<q, r>> by z rounded to the nearest integer, ties to even
RoundQuotient(t, z) ==
  IF 2 * t[2] < z THEN t[1]
  ELSE IF 2 * t[2] > z THEN t[1] + 1
  ELSE IF t[1] % 2 = 0 THEN t[1] ELSE t[1] + 1

\* x * y / z rounded to the nearest integer, for y >= 0 and z > 0
MulDivRound(x, y, z) ==
  IF z <= 0 \/ y < 0 THEN 0
  ELSE IF x >= 0 THEN RoundQuotient(MulDivMod(x, y, z), z)
  ELSE 0 - RoundQuotient(MulDivMod(0 - x, y, z), z)

\* PowScale = HalfScale * HalfScale
HalfScale == 100 * 100

\* x * y for scaled x, y >= 0, rounded to the nearest scaled value: the
\* product is formed from the halves of x and y
MulScaledParts(xh, xl, yh, yl) ==
  xh * yh + ((xh * yl + xl * yh) \div HalfScale)
  + RoundDiv(((xh * yl + xl * yh) % HalfScale) * HalfScale + xl * yl, PowScale)

MulScaled(x, y) ==
  MulScaledParts(x \div HalfScale, x % HalfScale, y \div HalfScale, y % HalfScale)

\* x * x for a scaled x
Square(x) == MulScaled(x, x)

\* b ** n for a scaled base b and an integer n >= 0, by repeated squaring
RECURSIVE PowNat(_, _)
PowNat(b, n) ==
  IF n = 0 THEN PowScale
  ELSE IF n % 2 = 0 THEN Square(PowNat(b, n \div 2))
  ELSE MulScaled(PowNat(b, n - 1), b)

\* b ** n for any integer n: a negative exponent is the reciprocal
Pow(b, n) ==
  IF n >= 0 THEN PowNat(b, n)
  ELSE MulDivRound(PowScale, PowScale, PowNat(b, 0 - n))

\* round(x, 2): x (in units) to a whole number of cents, ties to even
Round2(x) == Cent * RoundDiv(x, Cent)

----------------------------------------------------------------------------
(* Loan.calculate_emi *)

MonthsPerYear == 12

\* 1 + monthly_roi, scaled; monthly_roi = annual_roi / 12 / 100
OnePlusMonthlyRoi(annual_roi) ==
  PowScale + RoundDiv((PowScale \div 100) * annual_roi, MonthsPerYear)

\* the divisor ((1 + monthly_roi) ** tenure_months) - 1 of line 15
EmiDivisor(annual_roi, tenure_months) ==
  Pow(OnePlusMonthlyRoi(annual_roi), tenure_months) - PowScale

\* line 15 raises ZeroDivisionError when the divisor is zero
EmiRaises(annual_roi, tenure_months) ==
  EmiDivisor(annual_roi, tenure_months) = 0

\* principal * monthly_roi in 1/100 of a unit: the first product of line 15
InterestFine(p, annual_roi) == RoundDiv(p * annual_roi, MonthsPerYear)

\* the value calculate_emi returns when it does not raise, in units
calculate_emi(annual_roi, p, tenure_months) ==
  LET d    == EmiDivisor(annual_roi, tenure_months)
      pw   == d + PowScale
      fine == IF d > 0
              THEN MulDivRound(InterestFine(p, annual_roi), pw, d)
              ELSE 0 - MulDivRound(InterestFine(p, annual_roi), pw, 0 - d)
  IN  Cent * RoundDiv(fine, Cent * 100)

\* principal * monthly_roi of line 28, in units
Interest(p, annual_roi) == RoundDiv(p * annual_roi, MonthsPerYear * 100)

----------------------------------------------------------------------------
(* Inputs *)

\* longest tenure drawn, in years
MaxTenure == 2
\* the loop is followed while year < MaxYears; plan keys are drawn from
\* 1..MaxYears
MaxYears == 3

Principals == {100 * Unit, 1000 * Unit}
Rates == {0, 12, 24}
Modes == {"reduce_tenure", "reduce_emi"}
\* 10.00 and 52.90
PlanAmounts == {10 * Unit, 52 * Unit + 90 * Cent}

\* a dict is a function from a set of years to amounts
Dicts == UNION {[K -> PlanAmounts] : K \in SUBSET (1..MaxYears)}
\* the prepayment argument: <<>> is None, <<d>> is the dict d
None == <<>>
Prepayments == {None} \cup {<<d>> : d \in Dicts}

\* "prepayment and year + 1 in prepayment" of line 33
HasKey(prepayment, k) ==
  /\ prepayment # None
  /\ DOMAIN prepayment[1] # {}
  /\ k \in DOMAIN prepayment[1]

----------------------------------------------------------------------------
(* State *)

VARIABLES
  loan,          \* the Loan object: principal, annual_roi, tenure_years
  run,           \* which call of simulate_with_prepayment is running
  prepayment,    \* its prepayment argument
  mode,          \* its mode argument
  pc,            \* where the handler is
  principal,     \* the locals of simulate_with_prepayment
  emi,
  month,
  year,
  interest,
  principal_component,
  lumpsum,
  data,
  vanilla,       \* the list the vanilla call returned
  stats,         \* what compare_with_prepayment reports
  args,          \* the arguments of generate_prepayment_schedule
  schedule,      \* its locals
  i,
  gpc            \* where generate_prepayment_schedule is

simVars == <<run, prepayment, mode, principal, emi, month, year, interest,
             principal_component, lumpsum, data>>
loanVars == <<loan, pc, simVars, vanilla, stats>>
genVars == <<args, schedule, i, gpc>>
vars == <<loanVars, genVars>>

NoStats == [interest_vanilla |-> 0, interest_prepay |-> 0,
            months_vanilla |-> 0, months_prepay |-> 0,
            interest_saved |-> 0, months_saved |-> 0]

tenure_months == loan.tenure_years * MonthsPerYear

----------------------------------------------------------------------------
(* Loan.simulate_with_prepayment *)

\* lines 19-25: the locals are set and the first emi computed; line 23
\* raises when calculate_emi does
Begin(r, p, m) ==
  /\ run' = r
  /\ prepayment' = p
  /\ mode' = m
  /\ principal' = loan.principal
  /\ month' = 0
  /\ year' = 0
  /\ interest' = 0
  /\ principal_component' = 0
  /\ lumpsum' = 0
  /\ data' = <<>>
  /\ IF EmiRaises(loan.annual_roi, tenure_months)
     THEN /\ emi' = 0
          /\ pc' = "fault"
     ELSE /\ emi' = calculate_emi(loan.annual_roi, loan.principal, tenure_months)
          /\ pc' = IF loan.principal > 0 THEN "loop" ELSE "return"

\* line 29
PrincipalComponent(e, int, p) == Min(e - int, p)

\* line 33: the prepayment check
Applies(p, m, y) == m = MonthsPerYear - 1 /\ HasKey(p, y + 1)

\* the prepayment taken whole, whatever is outstanding
LumpsumUnclamped(amount, p) == amount

\* line 34
Lumpsum(amount, p) == Min(amount, p)

\* the installment recomputed in either mode
RecomputesAlways(md) == md \in {"reduce_emi", "reduce_tenure"}

\* line 36
Recomputes(md) == md = "reduce_emi"

\* line 37
RemainingMonths(y, m) == tenure_months - (y * MonthsPerYear + m + 1)

\* lines 40-48
Record(e, l, p) ==
  [principal |-> Round2(loan.principal),
   roi |-> loan.annual_roi,
   year |-> year,
   month |-> month,
   emi |-> Round2(e),
   lumpsump |-> Round2(l),
   outstanding_principal |-> Round2(p)]

\* lines 40-56 with the values of this iteration: the record is appended,
\* then the loop breaks or the month advances
Emit(e, l, p) ==
  /\ emi' = e
  /\ data' = Append(data, Record(e, l, p))
  /\ IF p <= 0
     THEN /\ pc' = "return"
          /\ UNCHANGED <<month, year>>
     ELSE /\ pc' = "loop"
          /\ month' = IF month + 1 = MonthsPerYear THEN 0 ELSE month + 1
          /\ year' = IF month + 1 = MonthsPerYear THEN year + 1 ELSE year

\* one iteration of the while loop, lines 27-56
Step ==
  /\ pc = "loop"
  /\ principal > 0
  /\ year < MaxYears
  /\ interest' = Interest(principal, loan.annual_roi)
  /\ principal_component' = PrincipalComponent(emi, interest', principal)
  /\ lumpsum' = IF Applies(prepayment, month, year)
                THEN Lumpsum(prepayment[1][year + 1],
                             principal - principal_component')
                ELSE 0
  /\ principal' = principal - principal_component' - lumpsum'
  /\ IF Applies(prepayment, month, year) /\ Recomputes(mode)
     THEN IF EmiRaises(loan.annual_roi, RemainingMonths(year, month))
          THEN /\ pc' = "fault"
               /\ UNCHANGED <<emi, data, month, year>>
          ELSE Emit(calculate_emi(loan.annual_roi, principal',
                                  RemainingMonths(year, month)),
                    lumpsum', principal')
     ELSE Emit(emi, lumpsum', principal')
  /\ UNCHANGED <<loan, run, prepayment, mode, vanilla, stats, genVars>>

----------------------------------------------------------------------------
(* Loan.compare_with_prepayment *)

\* df[col].sum() over the records lo..hi of a list
RECURSIVE SumEmi(_, _, _)
SumEmi(d, lo, hi) ==
  IF lo > hi THEN 0
  ELSE IF lo = hi THEN d[lo].emi
  ELSE SumEmi(d, lo, (lo + hi) \div 2) + SumEmi(d, (lo + hi) \div 2 + 1, hi)

RECURSIVE SumLumpsump(_, _, _)
SumLumpsump(d, lo, hi) ==
  IF lo > hi THEN 0
  ELSE IF lo = hi THEN d[lo].lumpsump
  ELSE SumLumpsump(d, lo, (lo + hi) \div 2)
       + SumLumpsump(d, (lo + hi) \div 2 + 1, hi)

\* lines 72-73
TotalPaid(d) == SumEmi(d, 1, Len(d)) + SumLumpsump(d, 1, Len(d))

\* lines 72-87
Summary(v, p) ==
  [interest_vanilla |-> TotalPaid(v) - loan.principal,
   interest_prepay |-> TotalPaid(p) - loan.principal,
   months_vanilla |-> Len(v),
   months_prepay |-> Len(p),
   interest_saved |-> (TotalPaid(v) - loan.principal)
                      - (TotalPaid(p) - loan.principal),
   months_saved |-> Len(v) - Len(p)]

----------------------------------------------------------------------------
(* The "Simulate Loan" handler, lines 151-155 *)

\* line 153
SimulateVanilla ==
  /\ pc = "button"
  /\ Begin("vanilla", None, "reduce_tenure")
  /\ UNCHANGED <<loan, vanilla, stats, genVars>>

\* line 154: the vanilla call has returned its list
SimulatePrepay ==
  /\ pc = "return"
  /\ run = "vanilla"
  /\ vanilla' = data
  /\ \E p \in Prepayments, m \in Modes : Begin("prepay", p, m)
  /\ UNCHANGED <<loan, stats, genVars>>

\* line 155
Compare ==
  /\ pc = "return"
  /\ run = "prepay"
  /\ stats' = Summary(vanilla, data)
  /\ pc' = "done"
  /\ UNCHANGED <<loan, simVars, vanilla, genVars>>

----------------------------------------------------------------------------
(* Loan.generate_prepayment_schedule *)

\* most years a schedule is generated for
MaxGenYears == 2
\* latest start year drawn
MaxStartYear == 2

\* 40000.00, 10.0075 and 0.0125
GenBases == {40000 * Unit, 10 * Unit + 75, 125}
StepUps == {0, 10}
Frequencies == {1, 2}

\* the years counted from the year after start_year
ScheduleYearAfter(start_year, k, frequency) == start_year + (k + 1) * frequency

\* line 63
ScheduleYear(start_year, k, frequency) == start_year + k * frequency

\* line 64
ScheduleAmount(base, step_up_pct, k) ==
  MulScaled(base, Pow(PowScale + (PowScale \div 100) * step_up_pct, k))

\* schedule[y] = a
Store(d, y, a) == [k \in DOMAIN d \cup {y} |-> IF k = y THEN a ELSE d[k]]

\* one iteration of the for loop, lines 62-65
GenIter ==
  /\ gpc = "for"
  /\ i < args.total_years
  /\ schedule' = Store(schedule,
                       ScheduleYear(args.start_year, i, args.frequency),
                       Round2(ScheduleAmount(args.base, args.step_up_pct, i)))
  /\ i' = i + 1
  /\ UNCHANGED <<args, gpc, loanVars>>

\* line 66
GenReturn ==
  /\ gpc = "for"
  /\ i >= args.total_years
  /\ gpc' = "returned"
  /\ UNCHANGED <<args, schedule, i, loanVars>>

----------------------------------------------------------------------------
(* Specifications *)

LoanIdle ==
  /\ run = "none"
  /\ prepayment = None
  /\ mode = "reduce_tenure"
  /\ principal = 0
  /\ emi = 0
  /\ month = 0
  /\ year = 0
  /\ interest = 0
  /\ principal_component = 0
  /\ lumpsum = 0
  /\ data = <<>>
  /\ vanilla = <<>>
  /\ stats = NoStats

GenIdle ==
  /\ args = [start_year |-> 1, base |-> 0, total_years |-> 0,
             step_up_pct |-> 0, frequency |-> 1]
  /\ schedule = <<>>
  /\ i = 0

\* line 152: the Loan is constructed from validated terms
Init ==
  /\ loan \in [principal : Principals, annual_roi : Rates,
               tenure_years : 1..MaxTenure]
  /\ pc = "button"
  /\ LoanIdle
  /\ GenIdle
  /\ gpc = "idle"

Next == SimulateVanilla \/ Step \/ SimulatePrepay \/ Compare

Spec == Init /\ [][Next]_vars

\* line 60: generate_prepayment_schedule is called
GenInit ==
  /\ loan = [principal |-> 100 * Unit, annual_roi |-> 12, tenure_years |-> 1]
  /\ pc = "idle"
  /\ LoanIdle
  /\ args \in [start_year : 1..MaxStartYear, base : GenBases,
               total_years : (0 - 1)..MaxGenYears,
               step_up_pct : StepUps, frequency : Frequencies]
  /\ schedule = <<>>
  /\ i = 0
  /\ gpc = "for"

GenNext == GenIter \/ GenReturn

GenSpec == GenInit /\ [][GenNext]_vars

----------------------------------------------------------------------------
(* Properties *)

Last(d) == d[Len(d)]
FirstEmi == calculate_emi(loan.annual_roi, loan.principal, tenure_months)
HasPlan == prepayment # None /\ DOMAIN prepayment[1] # {}

\* C1: a run with no prepayment plan ends after exactly tenure_years * 12
\* records, the last one with outstanding principal 0, and every record
\* carries the installment calculate_emi returned.
C1_BaselineExactTenure ==
  (run = "vanilla" /\ pc = "return") =>
    /\ Len(data) = tenure_months
    /\ Last(data).outstanding_principal = 0
    /\ \A k \in 1..Len(data) : data[k].emi = FirstEmi

\* C2: in every list of records the outstanding principal is never
\* negative, the first is at most the original principal, and each is at
\* most the one before it.
C2_OutstandingMonotone ==
  \A k \in 1..Len(data) :
    /\ data[k].outstanding_principal >= 0
    /\ k = 1 => data[k].outstanding_principal <= loan.principal
    /\ k > 1 => data[k].outstanding_principal <= data[k - 1].outstanding_principal

\* C3: with a nonempty plan, in either mode, the comparison reports
\* interest saved >= 0 and months saved >= 0.
C3_SavingsNonNegative ==
  (pc = "done" /\ HasPlan) =>
    /\ stats.interest_saved >= 0
    /\ stats.months_saved >= 0

\* The loop can no longer end: the installment does not exceed the interest,
\* so the principal does not fall, and no key of the plan lies ahead, so
\* neither the principal nor the installment is touched by a prepayment.
NeverTerminates ==
  /\ pc = "loop"
  /\ principal > 0
  /\ emi <= Interest(principal, loan.annual_roi)
  /\ \A k \in (IF HasPlan THEN DOMAIN prepayment[1] ELSE {}) : k <= year

\* C4: when the first installment exceeds the first period's interest, the
\* run ends after finitely many periods, for every plan and in both modes:
\* it is never in a state from which the loop cannot end.
C4_Terminates ==
  (run # "none" /\ FirstEmi > Interest(loan.principal, loan.annual_roi)) =>
    ~NeverTerminates

\* C5: at a zero rate calculate_emi does not raise and returns
\* principal / tenure_months, which is the installment the run starts with.
C5_ZeroRateInstallment ==
  (loan.annual_roi = 0 /\ run # "none") =>
    /\ pc # "fault"
    /\ data = <<>> => emi = Round2(RoundDiv(loan.principal, tenure_months))

\* C6: a run on validated terms with a valid plan never aborts with a
\* runtime fault; in particular the recomputation of the installment at a
\* month-11 period succeeds, also when the plan's key is tenure_years.
\* (Stated here for the loans with a positive rate: the fault of a zero-rate
\* loan is the subject of C5.)
C6_NoRuntimeFault == loan.annual_roi > 0 => pc # "fault"

\* C7 as stated: generate_prepayment_schedule(start_year, base, n, 0, 1)
\* returns exactly the keys start_year .. start_year + n - 1 (none for
\* n <= 0), each with the amount base.
C7_ConstantSchedule ==
  (gpc = "returned" /\ args.step_up_pct = 0 /\ args.frequency = 1) =>
    /\ DOMAIN schedule
         = args.start_year..(args.start_year + args.total_years - 1)
    /\ \A k \in DOMAIN schedule : schedule[k] = args.base

\* C7 amended: generate_prepayment_schedule(start_year, base, n, 0, 1)
\* returns exactly the keys start_year .. start_year + n - 1 (none for
\* n <= 0), each with the amount base rounded to 2 decimals.
C7_ConstantRoundedSchedule ==
  (gpc = "returned" /\ args.step_up_pct = 0 /\ args.frequency = 1) =>
    /\ DOMAIN schedule
         = args.start_year..(args.start_year + args.total_years - 1)
    /\ \A k \in DOMAIN schedule :
         schedule[k] = Cent * RoundDiv(args.base, Cent)

\* a schedule of several years was generated from a base that is not a
\* whole number of cents
C7_Witness ==
  /\ gpc = "returned"
  /\ args.step_up_pct = 0
  /\ args.frequency = 1
  /\ args.total_years >= 2
  /\ args.base % Cent # 0
  /\ Cardinality(DOMAIN schedule) = args.total_years

\* the outstanding principal after this period's principal portion
AfterPortion ==
  principal
  - (IF emi - Interest(principal, loan.annual_roi) <= principal
     THEN emi - Interest(principal, loan.annual_roi) ELSE principal)

\* this period closes a year whose number is a key of the plan
DueNow == month = 11 /\ HasPlan /\ (year + 1) \in DOMAIN prepayment[1]

\* the prepayment applied this period: min(plan[year + 1], outstanding)
DueAmount ==
  IF prepayment[1][year + 1] <= AfterPortion
  THEN prepayment[1][year + 1] ELSE AfterPortion

\* every record is of another month, and a record with a prepayment is a
\* month-11 record whose year + 1 is a key of the plan
PrepaymentsInPlace ==
  /\ \A j, k \in 1..Len(data) :
       (data[j].year = data[k].year /\ data[j].month = data[k].month) => j = k
  /\ \A k \in 1..Len(data) :
       data[k].lumpsump # 0 =>
         /\ data[k].month = 11
         /\ HasPlan
         /\ (data[k].year + 1) \in DOMAIN prepayment[1]

\* C8 as stated: the record of a period has prepayment 0 unless the period
\* is a month 11 and year + 1 is a key of the plan; then its prepayment is
\* min(plan[year + 1], outstanding after the principal portion) and its
\* outstanding principal is that outstanding less the prepayment.  An entry
\* of the plan is applied at most once.
C8_PrepaymentExact ==
  /\ [][(Step /\ pc' # "fault") =>
         /\ Last(data').year = year /\ Last(data').month = month
         /\ IF DueNow
            THEN /\ Last(data').lumpsump = DueAmount
                 /\ Last(data').outstanding_principal
                      = AfterPortion - Last(data').lumpsump
            ELSE Last(data').lumpsump = 0]_vars
  /\ []PrepaymentsInPlace

\* C8 amended: as C8, with the record's prepayment equal to
\* min(plan[year + 1], outstanding after the principal portion) rounded to
\* 2 decimals, and its outstanding principal equal to that outstanding less
\* the unrounded prepayment, rounded to 2 decimals.
C8_PrepaymentRounded ==
  /\ [][(Step /\ pc' # "fault") =>
         /\ Last(data').year = year /\ Last(data').month = month
         /\ IF DueNow
            THEN /\ Last(data').lumpsump = Cent * RoundDiv(DueAmount, Cent)
                 /\ Last(data').outstanding_principal
                      = Cent * RoundDiv(AfterPortion - DueAmount, Cent)
            ELSE Last(data').lumpsump = 0]_vars
  /\ []PrepaymentsInPlace

\* a prepaid run has ended in which a prepayment was cut down to the
\* outstanding principal and another was applied in full
C8_Witness ==
  /\ pc = "return"
  /\ run = "prepay"
  /\ \E k \in 1..Len(data) :
       /\ data[k].lumpsump > 0
       /\ data[k].lumpsump < prepayment[1][data[k].year + 1]
  /\ \E k \in 1..Len(data) :
       /\ data[k].lumpsump > 0
       /\ data[k].lumpsump = prepayment[1][data[k].year + 1]

\* C9: in a reduce_tenure run and in a run with no plan every record
\* carries the installment computed at the start; in a reduce_emi run the
\* installment of a record differs from that of the record before it only
\* if the record is a month-11 record whose year + 1 is a key of the plan.
C9_InstallmentFrame ==
  /\ (mode = "reduce_tenure" \/ ~HasPlan) =>
       \A k \in 1..Len(data) : data[k].emi = FirstEmi
  /\ Len(data) >= 1 => (data[1].emi = FirstEmi \/ data[1].month = 11)
  /\ \A k \in 2..Len(data) :
       data[k].emi # data[k - 1].emi =>
         /\ mode = "reduce_emi"
         /\ data[k].month = 11
         /\ HasPlan
         /\ (data[k].year + 1) \in DOMAIN prepayment[1]

\* a reduce_emi run has ended whose installment changed at a prepayment
\* and stayed the same over the months after it
C9_Witness ==
  /\ pc = "return"
  /\ mode = "reduce_emi"
  /\ \E k \in 2..(Len(data) - 1) :
       /\ data[k].emi # data[k - 1].emi
       /\ data[k + 1].emi = data[k].emi
       /\ data[k].lumpsump > 0

\* C10: the installment a record carries is the money the period applied:
\* the interest charged plus the principal portion, also in the final
\* period and in the periods where the installment is recomputed.
C10_InstallmentIsApplied ==
  Len(data) > 0 => Last(data).emi = interest + principal_component

====
